---------------------------- MODULE Spec2Model ----------------------------
(***************************************************************************)
(* Supertonic NVDA synth driver: the request queue, the streaming worker   *)
(* (_SynthQueueThread.run), the asynchronous initialisation task and the   *)
(* driver facade (speak / cancel / terminate / voice and variant setters). *)
(* Three threads are modelled: the host thread that calls the facade, the  *)
(* loader thread and the worker thread.  Every step is one read or write   *)
(* of shared state in src/synthDrivers/supertonic/__init__.py; program     *)
(* counters are named after the source line the thread is about to run.    *)
(***************************************************************************)
EXTENDS Integers, Sequences, FiniteSets, TLC

(* ------------------------------ bounds -------------------------------- *)

\* events of one run: speak calls that push a request, cancel and terminate
\* calls, voice and variant changes, and the Gateway and sink faults the
\* environment injects
MaxEvents == 3

(* ------------------------- program constants --------------------------- *)

\* speed_factor = 1.05, in hundredths
speed_factor == 105

None == "None"

\* last_index = None (line 262): no index marker; markers are integers >= 0
NoIndex == -1

\* SynthDriver._available_voices, cut to the default voice and one other
Voices == {"F1", "M1"}

\* SynthDriver._lang_names, cut to the default language and one other
Langs == {"en", "ko"}

(* --------------------------- speech sequences -------------------------- *)

\* Text is a sequence of characters; "." ends a sentence, " " is whitespace.
Str(s) == [type |-> "str", s |-> s, index |-> 0]
IndexCommand(i) == [type |-> "IndexCommand", s |-> <<>>, index |-> i]
BreakCommand == [type |-> "BreakCommand", s |-> <<>>, index |-> 0]

Sentence == <<"a", ".">>
Blank == <<" ">>

\* The speech sequences the host passes to speak.
SpeechSequences ==
    { <<Str(Blank)>>,
      <<Str(Blank), IndexCommand(0)>>,
      <<Str(Sentence), BreakCommand, Str(Blank), Str(Sentence)>>,
      <<Str(Sentence), IndexCommand(1), Str(Sentence), Str(Sentence), IndexCommand(2)>> }

RECURSIVE LStrip(_)
LStrip(s) == IF s /= <<>> /\ Head(s) = " " THEN LStrip(Tail(s)) ELSE s

RECURSIVE RStrip(_)
RStrip(s) == IF s /= <<>> /\ s[Len(s)] = " " THEN RStrip(SubSeq(s, 1, Len(s) - 1)) ELSE s

\* str.strip()
Strip(s) == RStrip(LStrip(s))

\* speak, lines 261-270: "".join of the string items, in order
RECURSIVE combined_text(_)
combined_text(seq) ==
    IF seq = <<>> THEN <<>>
    ELSE (IF Head(seq).type = "str" THEN Head(seq).s ELSE <<>>) \o combined_text(Tail(seq))

\* last_index as if the first IndexCommand of the sequence were kept
RECURSIVE first_index(_)
first_index(seq) ==
    IF seq = <<>> THEN NoIndex
    ELSE IF Head(seq).type = "IndexCommand" THEN Head(seq).index
    ELSE first_index(Tail(seq))

\* speak, lines 262-268: the index of the last IndexCommand, None without one
RECURSIVE last_index(_)
last_index(seq) ==
    IF seq = <<>> THEN NoIndex
    ELSE IF seq[Len(seq)].type = "IndexCommand" THEN seq[Len(seq)].index
    ELSE last_index(SubSeq(seq, 1, Len(seq) - 1))

\* helper.chunk_text: the text split at sentence ends, blank pieces dropped
RECURSIVE SplitSentences(_, _)
SplitSentences(text, cur) ==
    IF text = <<>>
    THEN (IF Strip(cur) = <<>> THEN <<>> ELSE <<Strip(cur)>>)
    ELSE IF Head(text) = "."
         THEN <<Strip(Append(cur, "."))>> \o SplitSentences(Tail(text), <<>>)
         ELSE SplitSentences(Tail(text), Append(cur, Head(text)))

chunk_text(text) == SplitSentences(text, <<>>)

(* ------------------------------- state --------------------------------- *)

VARIABLES
    \* SynthDriver fields
    current_voice_id, current_lang, tts_engine, player, current_style_obj,
    request_queue, voice_loaded_event,
    \* _SynthQueueThread fields and the locals of run
    stop_event, cancel_event, wpc, request, chunks, chunkNo, wav,
    \* the loader thread (_initialize_async) and the host thread
    lpc, lvoice, hpc, harg,
    \* the installed assets
    model_files, style_files,
    \* what the collaborators saw, per request id; a fault is logged with its
    \* kind, the chunk it hit and the id the next pushed request will get
    nextId, pushed, dequeued, fed, inferCalls, indexReached, doneSpeaking, faults,
    \* bookkeeping of the scenario: the requests a cancel call was aimed at,
    \* and the disturbances so far
    cancelled, cancelEarly, nCancels, nSettingChanges, nFaults,
    \* the log of the calls, per request id: the speech sequence speak was
    \* given, the arguments of the Gateway calls, the index markers notified;
    \* and the number of onDoneSpeaking notifications made when terminate set
    \* the shutdown signal
    spoken, inferArgs, notifiedIndex, donesAtStop,
    \* the post-processing of one sample (lines 94-101): the sample of wav and
    \* the volume setting, the values computed from them, and the position
    sample, volume, wav_amplified, wav_clamped, audio_int16, ppc

driverVars == <<current_voice_id, current_lang, tts_engine, player, current_style_obj,
                request_queue, voice_loaded_event>>
workerVars == <<stop_event, cancel_event, wpc, request, chunks, chunkNo, wav>>
threadVars == <<lpc, lvoice, hpc, harg>>
envVars == <<model_files, style_files>>
obsVars == <<nextId, pushed, dequeued, fed, inferCalls, indexReached, doneSpeaking, faults>>
ghostVars == <<cancelled, cancelEarly, nCancels, nSettingChanges, nFaults>>
logVars == <<spoken, inferArgs, notifiedIndex, donesAtStop>>
postVars == <<sample, volume, wav_amplified, wav_clamped, audio_int16, ppc>>

vars == <<driverVars, workerVars, threadVars, envVars, obsVars, ghostVars, logVars, postVars>>

Ids == 1..MaxEvents
\* terminate has not been called
NotStopped == -1

NoRequest == [id |-> 0, text |-> <<>>, lang |-> None, style |-> None, speed |-> 0, index |-> NoIndex]

\* the driver as SynthDriver.__init__ leaves it, and the installed assets
InitDriver ==
    /\ current_voice_id = "F1"
    /\ current_lang = "en"
    /\ tts_engine = None
    /\ player = None
    /\ current_style_obj = None
    /\ request_queue = <<>>
    /\ voice_loaded_event = FALSE
    /\ stop_event = FALSE
    /\ cancel_event = FALSE
    /\ wpc = "L57"
    /\ request = NoRequest
    /\ chunks = <<>>
    /\ chunkNo = 0
    /\ wav = None
    /\ lpc = "L192"
    /\ lvoice = None
    /\ hpc = "idle"
    /\ harg = None
    /\ model_files \in {"ok", "no_tts_json", "broken"}
    /\ style_files \in {Voices, {"F1"}, {"M1"}}
    /\ nextId = 1
    /\ pushed = [r \in Ids |-> NoRequest]
    /\ dequeued = [r \in Ids |-> 0]
    /\ fed = [r \in Ids |-> <<>>]
    /\ inferCalls = [r \in Ids |-> 0]
    /\ indexReached = [r \in Ids |-> 0]
    /\ doneSpeaking = [r \in Ids |-> 0]
    /\ faults = [r \in Ids |-> <<>>]
    /\ cancelled = [r \in Ids |-> FALSE]
    /\ cancelEarly = [r \in Ids |-> FALSE]
    /\ nCancels = 0
    /\ nSettingChanges = 0
    /\ nFaults = 0
    /\ spoken = [r \in Ids |-> <<>>]
    /\ inferArgs = [r \in Ids |-> {}]
    /\ notifiedIndex = [r \in Ids |-> <<>>]
    /\ donesAtStop = NotStopped

\* the worker is not post-processing: volume has its default (line 163)
PostIdle ==
    /\ sample = 0
    /\ volume = 50
    /\ wav_amplified = 0
    /\ wav_clamped = 0
    /\ audio_int16 = 0
    /\ ppc = "idle"

\* SynthDriver.__init__ has run: both threads are started, nothing is loaded.
Init == InitDriver /\ PostIdle

\* the events so far
Events == (nextId - 1) + nCancels + nSettingChanges + nFaults + (IF stop_event THEN 1 ELSE 0)
MayAct == Events < MaxEvents

(* ------------------- the loader thread: _initialize_async -------------- *)

\* _load_style, lines 211-220: the style of voice_id replaces the active one
\* when its file exists and loads; a missing file (line 218) or a failing
\* load (line 220) is logged and leaves the active style as it was.
load_style(voice_id) ==
    current_style_obj' = IF voice_id \in style_files THEN voice_id ELSE current_style_obj

\* lines 190-194: tts.json missing: log and return
init_L192 ==
    /\ lpc = "L192"
    /\ lpc' = IF model_files = "no_tts_json" THEN "done" ELSE "L196"
    /\ UNCHANGED <<driverVars, workerVars, lvoice, hpc, harg, envVars, logVars, postVars, obsVars, ghostVars>>

\* line 196: load_text_to_speech; it raises on broken model files (line 208)
init_L196 ==
    /\ lpc = "L196"
    /\ IF model_files = "ok"
       THEN tts_engine' = "engine" /\ lpc' = "L197"
       ELSE tts_engine' = tts_engine /\ lpc' = "done"
    /\ UNCHANGED <<current_voice_id, current_lang, player, current_style_obj,
                   request_queue, voice_loaded_event>>
    /\ UNCHANGED <<workerVars, lvoice, hpc, harg, envVars, logVars, postVars, obsVars, ghostVars>>

\* line 197: the argument self._current_voice_id is read
init_L197 ==
    /\ lpc = "L197"
    /\ lvoice' = current_voice_id
    /\ lpc' = "L213"
    /\ UNCHANGED <<driverVars, workerVars, hpc, harg, envVars, logVars, postVars, obsVars, ghostVars>>

\* line 197 -> lines 211-220: the body of _load_style
init_L213 ==
    /\ lpc = "L213"
    /\ load_style(lvoice)
    /\ lvoice' = None
    /\ lpc' = "L199"
    /\ UNCHANGED <<current_voice_id, current_lang, tts_engine, player,
                   request_queue, voice_loaded_event>>
    /\ UNCHANGED <<workerVars, hpc, harg, envVars, logVars, postVars, obsVars, ghostVars>>

\* lines 199-204: the WavePlayer is opened (or its constructor raises, line 208)
init_L199 ==
    /\ lpc = "L199"
    /\ \/ player' = "open" /\ lpc' = "L206"
       \/ player' = player /\ lpc' = "done"
    /\ UNCHANGED <<current_voice_id, current_lang, tts_engine, current_style_obj,
                   request_queue, voice_loaded_event>>
    /\ UNCHANGED <<workerVars, lvoice, hpc, harg, envVars, logVars, postVars, obsVars, ghostVars>>

\* line 206: self._voice_loaded_event.set()
init_L206 ==
    /\ lpc = "L206"
    /\ voice_loaded_event' = TRUE
    /\ lpc' = "done"
    /\ UNCHANGED <<current_voice_id, current_lang, tts_engine, player, current_style_obj,
                   request_queue>>
    /\ UNCHANGED <<workerVars, lvoice, hpc, harg, envVars, logVars, postVars, obsVars, ghostVars>>

initialize_async ==
    \/ init_L192 \/ init_L196 \/ init_L197 \/ init_L213 \/ init_L199 \/ init_L206

(* ---------------------- the host thread: the facade -------------------- *)

\* the request speak builds, lines 275-281
new_request(seq) ==
    [id |-> nextId, text |-> combined_text(seq), lang |-> current_lang,
     style |-> current_style_obj, speed |-> speed_factor, index |-> last_index(seq)]

\* line 272: combined_text.strip() or last_index is not None
worth_pushing(seq) == Strip(combined_text(seq)) /= <<>> \/ last_index(seq) /= NoIndex

\* speak as if it waited until the worker holds no request
speak_waits_for_worker ==
    /\ hpc = "idle"
    /\ request.id = 0
    /\ \E seq \in SpeechSequences :
         IF voice_loaded_event /\ worth_pushing(seq)
         THEN /\ MayAct
              /\ request_queue' = Append(request_queue, new_request(seq))
              /\ pushed' = [pushed EXCEPT ![nextId] = new_request(seq)]
              /\ nextId' = nextId + 1
              /\ spoken' = [spoken EXCEPT ![nextId] = seq]
         ELSE UNCHANGED <<request_queue, pushed, nextId, spoken>>
    /\ UNCHANGED <<current_voice_id, current_lang, tts_engine, player, current_style_obj,
                   voice_loaded_event>>
    /\ UNCHANGED <<workerVars, threadVars, envVars, postVars, ghostVars>>
    /\ UNCHANGED <<inferArgs, notifiedIndex, donesAtStop>>
    /\ UNCHANGED <<dequeued, fed, inferCalls, indexReached, doneSpeaking, faults>>

\* speak, lines 257-281
speak ==
    /\ hpc = "idle"
    /\ \E seq \in SpeechSequences :
         IF voice_loaded_event /\ worth_pushing(seq)
         THEN /\ MayAct
              /\ request_queue' = Append(request_queue, new_request(seq))
              /\ pushed' = [pushed EXCEPT ![nextId] = new_request(seq)]
              /\ nextId' = nextId + 1
              /\ spoken' = [spoken EXCEPT ![nextId] = seq]
         ELSE UNCHANGED <<request_queue, pushed, nextId, spoken>>
    /\ UNCHANGED <<current_voice_id, current_lang, tts_engine, player, current_style_obj,
                   voice_loaded_event>>
    /\ UNCHANGED <<workerVars, threadVars, envVars, postVars, ghostVars>>
    /\ UNCHANGED <<inferArgs, notifiedIndex, donesAtStop>>
    /\ UNCHANGED <<dequeued, fed, inferCalls, indexReached, doneSpeaking, faults>>

\* the worker holds a dequeued request
Active == request.id /= 0

\* Gateway calls of request r that have returned or raised
Inferred(r) == inferCalls[r] - (IF wpc = "inferring" /\ request.id = r THEN 1 ELSE 0)

\* cancel, lines 284-285: the cancellation signal is set
cancel_L285 ==
    /\ hpc = "idle"
    /\ MayAct
    /\ cancel_event' = TRUE
    /\ hpc' = "L286"
    /\ nCancels' = nCancels + 1
    /\ cancelled' = [r \in Ids |-> cancelled[r] \/ (Active /\ request.id = r)]
    /\ cancelEarly' = [r \in Ids |->
                         cancelEarly[r]
                         \/ (r < nextId /\ doneSpeaking[r] = 0 /\ Inferred(r) = 0)]
    /\ UNCHANGED <<driverVars, stop_event, wpc, request, chunks, chunkNo, wav>>
    /\ UNCHANGED <<lpc, lvoice, harg, envVars, logVars, postVars, obsVars, nSettingChanges, nFaults>>

\* cancel, lines 286-290: stop() on the sink, any exception swallowed
cancel_L286 ==
    /\ hpc = "L286"
    /\ hpc' = "L292"
    /\ UNCHANGED <<driverVars, workerVars, lpc, lvoice, harg, envVars, logVars, postVars, obsVars, ghostVars>>

\* cancel, line 292: while not self._request_queue.empty()
cancel_L292 ==
    /\ hpc = "L292"
    /\ hpc' = IF request_queue = <<>> THEN "idle" ELSE "L293"
    /\ UNCHANGED <<driverVars, workerVars, lpc, lvoice, harg, envVars, logVars, postVars, obsVars, ghostVars>>

\* cancel_L293 as if one item were removed (if instead of while)
cancel_L293_drains_one ==
    /\ hpc = "L293"
    /\ request_queue' = IF request_queue = <<>> THEN request_queue ELSE Tail(request_queue)
    /\ hpc' = "idle"
    /\ UNCHANGED <<current_voice_id, current_lang, tts_engine, player, current_style_obj,
                   voice_loaded_event>>
    /\ UNCHANGED <<workerVars, lpc, lvoice, harg, envVars, logVars, postVars, obsVars, ghostVars>>

\* cancel, lines 293-295: get_nowait; queue.Empty ends the loop
cancel_L293 ==
    /\ hpc = "L293"
    /\ IF request_queue = <<>>
       THEN request_queue' = request_queue /\ hpc' = "idle"
       ELSE request_queue' = Tail(request_queue) /\ hpc' = "L292"
    /\ UNCHANGED <<current_voice_id, current_lang, tts_engine, player, current_style_obj,
                   voice_loaded_event>>
    /\ UNCHANGED <<workerVars, lpc, lvoice, harg, envVars, logVars, postVars, obsVars, ghostVars>>

cancel == cancel_L285 \/ cancel_L286 \/ cancel_L292 \/ cancel_L293

\* the onDoneSpeaking notifications so far (at most one per request)
NDone == Cardinality({r \in Ids : doneSpeaking[r] > 0})

\* terminate, lines 298-299: the shutdown signal is set
terminate_L299 ==
    /\ hpc = "idle"
    /\ MayAct
    /\ stop_event' = TRUE
    /\ hpc' = "L300"
    /\ donesAtStop' = NDone
    /\ UNCHANGED <<driverVars, cancel_event, wpc, request, chunks, chunkNo, wav>>
    /\ UNCHANGED <<lpc, lvoice, harg, envVars, postVars, obsVars, ghostVars>>
    /\ UNCHANGED <<spoken, inferArgs, notifiedIndex>>

\* terminate, lines 300-301: the sink, if there is one, is closed
terminate_L300 ==
    /\ hpc = "L300"
    /\ player' = IF player /= None THEN "closed" ELSE player
    /\ hpc' = "L302"
    /\ UNCHANGED <<current_voice_id, current_lang, tts_engine, current_style_obj,
                   request_queue, voice_loaded_event>>
    /\ UNCHANGED <<workerVars, lpc, lvoice, harg, envVars, logVars, postVars, obsVars, ghostVars>>

\* terminate, line 302: the engine reference is dropped; the host makes no
\* further call on a terminated driver
terminate_L302 ==
    /\ hpc = "L302"
    /\ tts_engine' = None
    /\ hpc' = "terminated"
    /\ UNCHANGED <<current_voice_id, current_lang, player, current_style_obj,
                   request_queue, voice_loaded_event>>
    /\ UNCHANGED <<workerVars, lpc, lvoice, harg, envVars, logVars, postVars, obsVars, ghostVars>>

terminate == terminate_L299 \/ terminate_L300 \/ terminate_L302

\* _set_voice, lines 230-231
set_voice_L231 ==
    /\ hpc = "idle"
    /\ MayAct
    /\ \E value \in Voices :
         /\ current_voice_id' = value
         /\ harg' = value
    /\ hpc' = "L232"
    /\ nSettingChanges' = nSettingChanges + 1
    /\ UNCHANGED <<current_lang, tts_engine, player, current_style_obj,
                   request_queue, voice_loaded_event>>
    /\ UNCHANGED <<workerVars, lpc, lvoice, envVars, logVars, postVars, obsVars>>
    /\ UNCHANGED <<cancelled, cancelEarly, nCancels, nFaults>>

\* _set_voice, line 232: if self.tts_engine
set_voice_L232 ==
    /\ hpc = "L232"
    /\ IF tts_engine /= None
       THEN hpc' = "L233" /\ harg' = harg
       ELSE hpc' = "idle" /\ harg' = None
    /\ UNCHANGED <<driverVars, workerVars, lpc, lvoice, envVars, logVars, postVars, obsVars, ghostVars>>

\* _set_voice, line 233: self._load_style(value)
set_voice_L233 ==
    /\ hpc = "L233"
    /\ load_style(harg)
    /\ hpc' = "idle"
    /\ harg' = None
    /\ UNCHANGED <<current_voice_id, current_lang, tts_engine, player,
                   request_queue, voice_loaded_event>>
    /\ UNCHANGED <<workerVars, lpc, lvoice, envVars, logVars, postVars, obsVars, ghostVars>>

set_voice == set_voice_L231 \/ set_voice_L232 \/ set_voice_L233

\* _set_variant, lines 241-243
set_variant ==
    /\ hpc = "idle"
    /\ MayAct
    /\ \E value \in Langs : current_lang' = value
    /\ nSettingChanges' = nSettingChanges + 1
    /\ UNCHANGED <<current_voice_id, tts_engine, player, current_style_obj,
                   request_queue, voice_loaded_event>>
    /\ UNCHANGED <<workerVars, threadVars, envVars, logVars, postVars, obsVars>>
    /\ UNCHANGED <<cancelled, cancelEarly, nCancels, nFaults>>


(* ------------------ the worker thread: _SynthQueueThread.run ----------- *)

hostVars == <<lpc, lvoice, hpc, harg>>
scenarioVars == <<cancelled, cancelEarly, nCancels, nSettingChanges>>

\* run_L57 as if the loop tested the cancellation signal as well
run_L57_stops_on_cancel ==
    /\ wpc = "L57"
    /\ wpc' = IF stop_event \/ cancel_event THEN "stopped" ELSE "L60"
    /\ UNCHANGED <<driverVars, stop_event, cancel_event, request, chunks, chunkNo, wav>>
    /\ UNCHANGED <<hostVars, envVars, logVars, postVars, obsVars, ghostVars>>

\* line 57: while not self.stop_event.is_set(); line 115 after the loop
run_L57 ==
    /\ wpc = "L57"
    /\ wpc' = IF stop_event THEN "stopped" ELSE "L60"
    /\ UNCHANGED <<driverVars, stop_event, cancel_event, request, chunks, chunkNo, wav>>
    /\ UNCHANGED <<hostVars, envVars, logVars, postVars, obsVars, ghostVars>>

\* run_L60 as if the queue handed out its newest item first
run_L60_lifo ==
    /\ wpc = "L60"
    /\ IF request_queue = <<>>
       THEN /\ wpc' = "L57"
            /\ UNCHANGED <<request_queue, request, dequeued>>
       ELSE /\ request' = request_queue[Len(request_queue)]
            /\ request_queue' = SubSeq(request_queue, 1, Len(request_queue) - 1)
            /\ dequeued' = [dequeued EXCEPT ![request_queue[Len(request_queue)].id] = @ + 1]
            /\ wpc' = "L64"
    /\ UNCHANGED <<current_voice_id, current_lang, tts_engine, player, current_style_obj,
                   voice_loaded_event>>
    /\ UNCHANGED <<stop_event, cancel_event, chunks, chunkNo, wav>>
    /\ UNCHANGED <<hostVars, envVars, logVars, postVars, nextId, pushed, fed, inferCalls, indexReached, doneSpeaking, faults>>
    /\ UNCHANGED <<scenarioVars, nFaults>>

\* lines 58-62: get(timeout=0.1); queue.Empty leads back to line 57
run_L60 ==
    /\ wpc = "L60"
    /\ IF request_queue = <<>>
       THEN /\ wpc' = "L57"
            /\ UNCHANGED <<request_queue, request, dequeued>>
       ELSE /\ request' = Head(request_queue)
            /\ request_queue' = Tail(request_queue)
            /\ dequeued' = [dequeued EXCEPT ![Head(request_queue).id] = @ + 1]
            /\ wpc' = "L64"
    /\ UNCHANGED <<current_voice_id, current_lang, tts_engine, player, current_style_obj,
                   voice_loaded_event>>
    /\ UNCHANGED <<stop_event, cancel_event, chunks, chunkNo, wav>>
    /\ UNCHANGED <<hostVars, envVars, logVars, postVars, nextId, pushed, fed, inferCalls, indexReached, doneSpeaking, faults>>
    /\ UNCHANGED <<scenarioVars, nFaults>>

\* run_L64 as if the signal were left as it is on a dequeue
run_L64_keeps_signal ==
    /\ wpc = "L64"
    /\ cancel_event' = cancel_event
    /\ wpc' = "L68"
    /\ UNCHANGED <<driverVars, stop_event, request, chunks, chunkNo, wav>>
    /\ UNCHANGED <<hostVars, envVars, logVars, postVars, obsVars, ghostVars>>

\* line 64: self.cancel_event.clear()
run_L64 ==
    /\ wpc = "L64"
    /\ cancel_event' = FALSE
    /\ wpc' = "L68"
    /\ UNCHANGED <<driverVars, stop_event, request, chunks, chunkNo, wav>>
    /\ UNCHANGED <<hostVars, envVars, logVars, postVars, obsVars, ghostVars>>

\* run_L68 as if continue left the loop body without its finally block
run_L68_skips_finally ==
    /\ wpc = "L68"
    /\ IF cancel_event
       THEN wpc' = "L57" /\ request' = NoRequest
       ELSE wpc' = "L71" /\ request' = request
    /\ UNCHANGED <<driverVars, stop_event, cancel_event, chunks, chunkNo, wav>>
    /\ UNCHANGED <<hostVars, envVars, logVars, postVars, obsVars, ghostVars>>

\* lines 68-69: a set signal skips the request (continue runs the finally block)
run_L68 ==
    /\ wpc = "L68"
    /\ wpc' = IF cancel_event THEN "L112" ELSE "L71"
    /\ UNCHANGED <<driverVars, stop_event, cancel_event, request, chunks, chunkNo, wav>>
    /\ UNCHANGED <<hostVars, envVars, logVars, postVars, obsVars, ghostVars>>

\* lines 71-73: text and text.strip() and self.driver.tts_engine
run_L71 ==
    /\ wpc = "L71"
    /\ IF Strip(request.text) /= <<>> /\ tts_engine /= None
       THEN /\ chunks' = chunk_text(request.text)
            /\ wpc' = "L75"
       ELSE /\ chunks' = chunks
            /\ wpc' = "L106"
    /\ UNCHANGED <<driverVars, stop_event, cancel_event, request, chunkNo, wav>>
    /\ UNCHANGED <<hostVars, envVars, logVars, postVars, obsVars, ghostVars>>

\* lines 75-77: the next chunk, and the check of the signal before it
run_L75 ==
    /\ wpc = "L75"
    /\ IF chunkNo = Len(chunks)
       THEN /\ wpc' = "L106"
            /\ chunkNo' = chunkNo
       ELSE /\ chunkNo' = chunkNo + 1
            /\ wpc' = IF cancel_event THEN "L106" ELSE "L84"
    /\ UNCHANGED <<driverVars, stop_event, cancel_event, request, chunks, wav>>
    /\ UNCHANGED <<hostVars, envVars, logVars, postVars, obsVars, ghostVars>>

\* run_L84 as if the call read the language and the style of the driver
run_L84_reads_driver ==
    /\ wpc = "L84"
    /\ IF tts_engine = None
       THEN /\ faults' = [faults EXCEPT ![request.id] = Append(@, <<"engine", chunkNo, nextId>>)]
            /\ inferCalls' = inferCalls
            /\ wpc' = "L110"
            /\ inferArgs' = inferArgs
       ELSE /\ inferCalls' = [inferCalls EXCEPT ![request.id] = @ + 1]
            /\ inferArgs' = [inferArgs EXCEPT ![request.id] =
                                @ \cup {<<current_lang, current_style_obj, request.speed>>}]
            /\ faults' = faults
            /\ wpc' = "inferring"
    /\ UNCHANGED <<driverVars, stop_event, cancel_event, request, chunks, chunkNo, wav>>
    /\ UNCHANGED <<hostVars, envVars, postVars, nextId, pushed, dequeued, fed, indexReached, doneSpeaking, ghostVars>>
    /\ UNCHANGED <<spoken, notifiedIndex, donesAtStop>>

\* lines 80-90: self.driver.tts_engine._infer is called; a dropped engine
\* (None) raises AttributeError, caught at line 109
run_L84 ==
    /\ wpc = "L84"
    /\ IF tts_engine = None
       THEN /\ faults' = [faults EXCEPT ![request.id] = Append(@, <<"engine", chunkNo, nextId>>)]
            /\ inferCalls' = inferCalls
            /\ wpc' = "L110"
            /\ inferArgs' = inferArgs
       ELSE /\ inferCalls' = [inferCalls EXCEPT ![request.id] = @ + 1]
            /\ inferArgs' = [inferArgs EXCEPT ![request.id] =
                                @ \cup {<<request.lang, request.style, request.speed>>}]
            /\ faults' = faults
            /\ wpc' = "inferring"
    /\ UNCHANGED <<driverVars, stop_event, cancel_event, request, chunks, chunkNo, wav>>
    /\ UNCHANGED <<hostVars, envVars, postVars, nextId, pushed, dequeued, fed, indexReached, doneSpeaking, ghostVars>>
    /\ UNCHANGED <<spoken, notifiedIndex, donesAtStop>>

\* run_inferring as if a Gateway fault were caught per chunk and the loop went on
run_inferring_caught_per_chunk ==
    /\ wpc = "inferring"
    /\ \/ /\ wav' = "wav"
          /\ UNCHANGED <<faults, nFaults>>
       \/ /\ MayAct
          /\ wav' = None
          /\ \E kind \in {"nowav", "gateway"} :
                faults' = [faults EXCEPT ![request.id] = Append(@, <<kind, chunkNo, nextId>>)]
          /\ nFaults' = nFaults + 1
    /\ wpc' = "L92"
    /\ UNCHANGED <<driverVars, stop_event, cancel_event, request, chunks, chunkNo>>
    /\ UNCHANGED <<hostVars, envVars, logVars, postVars, nextId, pushed, dequeued, fed, inferCalls, indexReached, doneSpeaking>>
    /\ UNCHANGED scenarioVars

\* lines 84-90: the Gateway returns a waveform, returns None, or raises
run_inferring ==
    /\ wpc = "inferring"
    /\ \/ /\ wav' = "wav"
          /\ wpc' = "L92"
          /\ UNCHANGED <<faults, nFaults>>
       \/ /\ MayAct
          /\ wav' = None
          /\ wpc' = "L92"
          /\ faults' = [faults EXCEPT ![request.id] = Append(@, <<"nowav", chunkNo, nextId>>)]
          /\ nFaults' = nFaults + 1
       \/ /\ MayAct
          /\ wav' = wav
          /\ wpc' = "L110"
          /\ faults' = [faults EXCEPT ![request.id] = Append(@, <<"gateway", chunkNo, nextId>>)]
          /\ nFaults' = nFaults + 1
    /\ UNCHANGED <<driverVars, stop_event, cancel_event, request, chunks, chunkNo>>
    /\ UNCHANGED <<hostVars, envVars, logVars, postVars, nextId, pushed, dequeued, fed, inferCalls, indexReached, doneSpeaking>>
    /\ UNCHANGED scenarioVars

\* line 92: if not self.cancel_event.is_set() and wav is not None
run_L92 ==
    /\ wpc = "L92"
    /\ wpc' = IF ~cancel_event /\ wav /= None THEN "L94" ELSE "L75"
    /\ UNCHANGED <<driverVars, stop_event, cancel_event, request, chunks, chunkNo, wav>>
    /\ UNCHANGED <<hostVars, envVars, logVars, postVars, obsVars, ghostVars>>

\* lines 94-103: the buffer is post-processed; if self.driver._player
run_L94 ==
    /\ wpc = "L94"
    /\ wpc' = IF player /= None THEN "L104" ELSE "L75"
    /\ UNCHANGED <<driverVars, stop_event, cancel_event, request, chunks, chunkNo, wav>>
    /\ UNCHANGED <<hostVars, envVars, logVars, postVars, obsVars, ghostVars>>

\* line 104: self.driver._player.feed(audio_int16); the call returns or raises
\* (a sink fault; on a closed sink either may happen)
run_L104 ==
    /\ wpc = "L104"
    /\ fed' = [fed EXCEPT ![request.id] = Append(@, chunkNo)]
    /\ \/ /\ wpc' = "L75"
          /\ UNCHANGED <<faults, nFaults>>
       \/ /\ MayAct \/ player = "closed"
          /\ wpc' = "L110"
          /\ faults' = [faults EXCEPT ![request.id] = Append(@, <<"sink", chunkNo, nextId>>)]
          /\ nFaults' = IF player = "closed" THEN nFaults ELSE nFaults + 1
    /\ UNCHANGED <<driverVars, stop_event, cancel_event, request, chunks, chunkNo, wav>>
    /\ UNCHANGED <<hostVars, envVars, logVars, postVars, nextId, pushed, dequeued, inferCalls, indexReached, doneSpeaking>>
    /\ UNCHANGED scenarioVars

\* run_L106 as if it tested the truth value of index (if index and not ...)
run_L106_truthy_index ==
    /\ wpc = "L106"
    /\ wpc' = IF request.index > 0 /\ ~cancel_event THEN "L107" ELSE "L112"
    /\ UNCHANGED <<driverVars, stop_event, cancel_event, request, chunks, chunkNo, wav>>
    /\ UNCHANGED <<hostVars, envVars, logVars, postVars, obsVars, ghostVars>>

\* line 106: if index is not None and not self.cancel_event.is_set()
run_L106 ==
    /\ wpc = "L106"
    /\ wpc' = IF request.index /= NoIndex /\ ~cancel_event THEN "L107" ELSE "L112"
    /\ UNCHANGED <<driverVars, stop_event, cancel_event, request, chunks, chunkNo, wav>>
    /\ UNCHANGED <<hostVars, envVars, logVars, postVars, obsVars, ghostVars>>

\* line 107: synthIndexReached.notify
run_L107 ==
    /\ wpc = "L107"
    /\ indexReached' = [indexReached EXCEPT ![request.id] = @ + 1]
    /\ notifiedIndex' = [notifiedIndex EXCEPT ![request.id] = Append(@, request.index)]
    /\ wpc' = "L112"
    /\ UNCHANGED <<spoken, inferArgs, donesAtStop>>
    /\ UNCHANGED <<driverVars, stop_event, cancel_event, request, chunks, chunkNo, wav>>
    /\ UNCHANGED <<hostVars, envVars, postVars, nextId, pushed, dequeued, fed, inferCalls, doneSpeaking, faults, ghostVars>>

\* run_L110 as if the exception escaped run and ended the thread
run_L110_escapes ==
    /\ wpc = "L110"
    /\ wpc' = "stopped"
    /\ UNCHANGED <<driverVars, stop_event, cancel_event, request, chunks, chunkNo, wav>>
    /\ UNCHANGED <<hostVars, envVars, logVars, postVars, obsVars, ghostVars>>

\* lines 109-110: except Exception: the error is logged
run_L110 ==
    /\ wpc = "L110"
    /\ wpc' = "L112"
    /\ UNCHANGED <<driverVars, stop_event, cancel_event, request, chunks, chunkNo, wav>>
    /\ UNCHANGED <<hostVars, envVars, logVars, postVars, obsVars, ghostVars>>

\* lines 111-113: finally: task_done and synthDoneSpeaking.notify
run_L112 ==
    /\ wpc = "L112"
    /\ doneSpeaking' = [doneSpeaking EXCEPT ![request.id] = @ + 1]
    /\ request' = NoRequest
    /\ chunks' = <<>>
    /\ chunkNo' = 0
    /\ wav' = None
    /\ wpc' = "L57"
    /\ UNCHANGED <<driverVars, stop_event, cancel_event>>
    /\ UNCHANGED <<hostVars, envVars, logVars, postVars, nextId, pushed, dequeued, fed, inferCalls, indexReached, faults, ghostVars>>

run ==
    \/ run_L57 \/ run_L60 \/ run_L64 \/ run_L68 \/ run_L71 \/ run_L75 \/ run_L84
    \/ run_inferring \/ run_L92 \/ run_L94 \/ run_L104 \/ run_L106 \/ run_L107
    \/ run_L110 \/ run_L112

(* ------------- post-processing of one chunk: lines 94-101 -------------- *)

\* A sample of wav is the fraction n / SampleDen, n in -MaxSample..MaxSample
SampleDen == 4
MaxSample == 8
Samples == (0 - MaxSample)..MaxSample

\* the volume settings of the host, in percent
Volumes == {v \in 0..100 : v % 25 = 0}

\* line 94: (self.driver._volume / 100.0) * 2.0
gain_constant == 2

\* line 101: wav_clamped * 32767
PcmMax == 32767

\* the amplified and the clamped sample are fractions over Den
Den == SampleDen * 100

\* np.clip(x, lo, hi)
clip(x, lo, hi) == IF x < lo THEN lo ELSE IF x > hi THEN hi ELSE x

\* .astype(np.int16) of the fraction n / d: the fraction part is dropped
\* (towards zero) and the integer is kept modulo 2^16
astype_int16(n, d) ==
    LET whole == IF n >= 0 THEN n \div d ELSE 0 - ((0 - n) \div d)
    IN  ((whole + 32768) % 65536) - 32768

\* The worker is at line 94 with a waveform and a volume setting.
PcmInit ==
    /\ InitDriver
    /\ model_files = "ok"
    /\ style_files = Voices
    /\ sample \in Samples
    /\ volume \in Volumes
    /\ wav_amplified = 0
    /\ wav_clamped = 0
    /\ audio_int16 = 0
    /\ ppc = "L94"

\* lines 94-95: wav * ((volume / 100.0) * 2.0), as a fraction over Den
process_L94 ==
    /\ ppc = "L94"
    /\ wav_amplified' = sample * volume * gain_constant
    /\ ppc' = "L98"
    /\ UNCHANGED <<sample, volume, wav_clamped, audio_int16>>
    /\ UNCHANGED <<driverVars, workerVars, threadVars, envVars, obsVars, ghostVars, logVars>>

\* process_L98 as if the amplified sample went unclipped to the conversion
process_L98_no_clip ==
    /\ ppc = "L98"
    /\ wav_clamped' = wav_amplified
    /\ ppc' = "L101"
    /\ UNCHANGED <<sample, volume, wav_amplified, audio_int16>>
    /\ UNCHANGED <<driverVars, workerVars, threadVars, envVars, obsVars, ghostVars, logVars>>

\* line 98: np.clip(wav_amplified, -1.0, 1.0)
process_L98 ==
    /\ ppc = "L98"
    /\ wav_clamped' = clip(wav_amplified, 0 - Den, Den)
    /\ ppc' = "L101"
    /\ UNCHANGED <<sample, volume, wav_amplified, audio_int16>>
    /\ UNCHANGED <<driverVars, workerVars, threadVars, envVars, obsVars, ghostVars, logVars>>

\* line 101: (wav_clamped * 32767).astype(np.int16)
process_L101 ==
    /\ ppc = "L101"
    /\ audio_int16' = astype_int16(wav_clamped * PcmMax, Den)
    /\ ppc' = "done"
    /\ UNCHANGED <<sample, volume, wav_amplified, wav_clamped>>
    /\ UNCHANGED <<driverVars, workerVars, threadVars, envVars, obsVars, ghostVars, logVars>>

PostProcessing == process_L94 \/ process_L98 \/ process_L101

(* --------------------------- specifications ---------------------------- *)

\* the post-processing alone, on every sample and volume setting
PcmSpec == PcmInit /\ [][PostProcessing]_vars

Next == initialize_async \/ speak \/ cancel \/ terminate \/ set_voice \/ set_variant \/ run

Spec == Init /\ [][Next]_vars

\* The worker is a running thread: it is scheduled as long as it can step.
FairSpec == Spec /\ WF_vars(run)

(* ------------------------------ properties ----------------------------- *)

InQueue(r) == \E i \in 1..Len(request_queue) : request_queue[i].id = r

\* request r is still to be finished by the worker
Pending(r) == InQueue(r) \/ request.id = r

\* the chunks of request r, by ordinal, and all of them in order
NChunks(r) == Len(chunk_text(pushed[r].text))
Ordinals(n) == [i \in 1..n |-> i]

\* C1: when cancel() is called after speak(R1) and before any chunk of R1 has
\* finished inferring, no chunk of R1 is ever fed to the sink, and
\* onDoneSpeaking fires exactly once for R1 (never twice, and once by the time
\* cancel has returned and the worker has left R1).
C1_CancelBeforeInference ==
    \A r \in Ids :
        cancelEarly[r] =>
            /\ fed[r] = <<>>
            /\ doneSpeaking[r] <= 1
            /\ (hpc = "idle" /\ ~Pending(r)) => doneSpeaking[r] = 1

\* C2: no stale audio: whenever the worker feeds a buffer of request R, the
\* cancellation signal has not been set since R was dequeued.
C2_NoStaleFeed ==
    [][\A r \in Ids : fed'[r] /= fed[r] => ~cancelled[r]]_vars

\* C3: every dequeued request gets exactly one onDoneSpeaking: none while the
\* worker still holds it, one from the moment the worker has left it, whatever
\* happened to it (cancel, blank text, Gateway or sink fault); and no feed or
\* index notification of a request comes after its onDoneSpeaking.
C3_DoneExactlyOnce ==
    /\ [](\A r \in Ids :
            /\ dequeued[r] <= 1
            /\ doneSpeaking[r] = (IF request.id = r THEN 0 ELSE dequeued[r]))
    /\ [][\A r \in Ids :
            (fed'[r] /= fed[r] \/ indexReached'[r] /= indexReached[r])
                => doneSpeaking'[r] = 0]_vars

\* a request cancelled after its first chunk was fed has been notified done
C3_Witness ==
    \E r \in Ids :
        cancelled[r] /\ fed[r] /= <<>> /\ indexReached[r] = 0 /\ doneSpeaking[r] = 1

\* the only fault of request r is a Gateway exception, on chunk FaultChunk(r)
IsGatewayFault(r) == Len(faults[r]) = 1 /\ faults[r][1][1] = "gateway"
FaultChunk(r) == faults[r][1][2]

Clean == nCancels = 0 /\ ~stop_event /\ nFaults = 0

\* C5: requests pushed with no cancel or shutdown (and no fault) are all
\* processed, in push order: no pushed request is lost, a request has a feed
\* only when every earlier request is finished, and each request's chunks are
\* fed in ordinal order, all of them by the time it is done, none twice.
C5_FifoOrder ==
    \A r \in Ids :
        /\ \A i \in 1..(Len(fed[r]) - 1) : fed[r][i] < fed[r][i + 1]
        /\ (Clean /\ r < nextId) =>
              /\ InQueue(r) \/ dequeued[r] = 1
              /\ fed[r] = Ordinals(Len(fed[r]))
              /\ doneSpeaking[r] = 1 => fed[r] = Ordinals(NChunks(r))
              /\ \A r2 \in Ids : (r < r2 /\ fed[r2] /= <<>>) => doneSpeaking[r] = 1

\* R1 (three chunks) and R2 (two chunks) are both fed completely
C5_Witness ==
    /\ Clean
    /\ NChunks(1) = 3 /\ fed[1] = <<1, 2, 3>> /\ doneSpeaking[1] = 1
    /\ NChunks(2) = 2 /\ fed[2] = <<1, 2>> /\ doneSpeaking[2] = 1

\* request r was pushed with blank text and an index marker
BlankWithIndex(r) ==
    r < nextId /\ pushed[r].index /= NoIndex /\ Strip(pushed[r].text) = <<>>

\* line 272 on the sequences with blank text and an index marker
BlankIndexedWorthPushing ==
    \A seq \in SpeechSequences :
        (Strip(combined_text(seq)) = <<>> /\ last_index(seq) /= NoIndex) => worth_pushing(seq)

\* C6: a speech sequence with blank text and an index marker is worth a
\* request, and the processing of such a request makes no Gateway call and no
\* feed call, and, unless a cancel arrives while it is processed, notifies
\* onIndexReached once and onDoneSpeaking once.
C6_BlankTextWithIndex ==
    /\ BlankIndexedWorthPushing
    /\ \A r \in Ids :
          BlankWithIndex(r) =>
              /\ inferCalls[r] = 0
              /\ fed[r] = <<>>
              /\ indexReached[r] <= 1
              /\ doneSpeaking[r] = (IF request.id = r THEN 0 ELSE dequeued[r])
              /\ (doneSpeaking[r] = 1 /\ ~cancelled[r]) => indexReached[r] = 1

\* a blank request with an index marker has been processed
C6_Witness ==
    \E r \in Ids :
        /\ BlankWithIndex(r) /\ ~cancelled[r]
        /\ indexReached[r] = 1 /\ doneSpeaking[r] = 1

\* C7: for a dequeued request with an index marker: if it is not cancelled,
\* onIndexReached is notified exactly once by the time it is done (also after
\* a Gateway or sink fault), after all its feeds and before onDoneSpeaking;
\* once it has been cancelled, onIndexReached is not notified for it.
C7_IndexReportedUnlessCancelled ==
    /\ [](\A r \in Ids :
            (r < nextId /\ pushed[r].index /= NoIndex) =>
                /\ indexReached[r] <= 1
                /\ (doneSpeaking[r] = 1 /\ ~cancelled[r]) => indexReached[r] = 1)
    /\ [][\A r \in Ids :
            /\ fed'[r] /= fed[r] => indexReached[r] = 0
            /\ indexReached'[r] /= indexReached[r] => doneSpeaking'[r] = 0
            /\ cancelled[r] => indexReached'[r] = indexReached[r]]_vars

\* C8: when cancel() returns the request queue is empty, and cancel never
\* blocks or raises: each of its steps can be taken whatever the worker did.
C8_CancelDrainsQueue ==
    /\ [](hpc \in {"L286", "L292", "L293"} => ENABLED cancel)
    /\ [][(hpc \in {"L292", "L293"} /\ hpc' = "idle") => request_queue' = <<>>]_vars

\* the worker took the last item between cancel's emptiness test and its get
C8_Witness == hpc = "L293" /\ request_queue = <<>> /\ Active

\* request r is fed completely and done
Complete(r) == doneSpeaking[r] = 1 /\ fed[r] = Ordinals(NChunks(r))

\* request r2 was pushed after a fault hit request r1
PushedAfterFault(r1, r2) ==
    \E i \in 1..Len(faults[r1]) : faults[r1][i][3] <= r2 /\ r2 < nextId

\* C9: a Gateway or sink fault never ends the worker (it stops only on the
\* shutdown signal), and a request waiting in the queue after a fault, with
\* nothing else disturbing the run, is dequeued and processed completely.
C9_WorkerSurvivesFaults ==
    /\ [](wpc = "stopped" => stop_event)
    /\ \A r \in Ids :
          (InQueue(r) /\ (\E r1 \in Ids : PushedAfterFault(r1, r)) /\ ~MayAct /\ hpc = "idle")
              ~> Complete(r)

\* a request with text, pushed after a fault, is complete
C9_Witness ==
    \E r1 \in Ids : \E r2 \in Ids :
        PushedAfterFault(r1, r2) /\ NChunks(r2) > 0 /\ Complete(r2)

\* C10: with a required model file or the default voice's style file missing
\* at startup, speak never pushes a request.
C10_MissingAssetsNoPush ==
    (model_files /= "ok" \/ "F1" \notin style_files)
        => (nextId = 1 /\ request_queue = <<>>)

\* C11: once terminate has set the shutdown signal the worker reaches Stopped
\* (under fair scheduling of the worker, every Gateway call returning), after
\* finishing or abandoning at most one request; once stopped it stays stopped
\* and dequeues nothing; and it is never stopped without the shutdown signal,
\* whatever cancel did.
C11_StopsOnShutdown ==
    /\ [](wpc = "stopped" => stop_event)
    /\ [](stop_event => NDone - donesAtStop <= 1)
    /\ [][wpc = "stopped" => (wpc' = "stopped" /\ dequeued' = dequeued)]_vars
    /\ stop_event ~> (wpc = "stopped")

\* the worker stopped after finishing one request, leaving another in the queue
C11_Witness ==
    wpc = "stopped" /\ NDone - donesAtStop = 1 /\ request_queue /= <<>> /\ nCancels = 0

\* C12: once terminate has returned and the initialisation task and the
\* worker have ended, no opened sink is left unclosed.
C12_NoSinkLeak ==
    (hpc = "terminated" /\ lpc = "done" /\ wpc = "stopped") => player /= "open"

\* no cancel hit request r, no shutdown was signalled and r met no fault
Undisturbed(r) == ~cancelled[r] /\ ~cancelEarly[r] /\ ~stop_event /\ faults[r] = <<>>

\* C13: every dequeue clears the cancellation signal, and a request pushed
\* after a cancel call returned, with no later cancel, shutdown or fault, is
\* processed completely by the time it is done: every chunk inferred and fed,
\* its index marker reported.
C13_CancelSparesNewer ==
    /\ [][(wpc = "L64" /\ wpc' /= wpc) => ~cancel_event']_vars
    /\ [][\A r \in Ids :
            (doneSpeaking[r] = 0 /\ doneSpeaking'[r] = 1 /\ nCancels > 0 /\ Undisturbed(r))
                => /\ fed[r] = Ordinals(NChunks(r))
                   /\ inferCalls[r] = NChunks(r)
                   /\ pushed[r].index /= NoIndex => indexReached[r] = 1]_vars

\* the request before r was cancelled while the worker held it, and r, which
\* that cancel did not find in the queue, is complete
C13_Witness ==
    \E r \in Ids :
        /\ r > 1 /\ cancelled[r - 1]
        /\ Undisturbed(r) /\ NChunks(r) > 0 /\ Complete(r) /\ indexReached[r] = 1

\* C14: every Gateway call for a chunk of request r gets the language, the
\* style and the speed that were current when speak pushed r, whatever voice
\* or variant change came in between.
C14_RequestKeepsSettings ==
    \A r \in Ids :
        \A a \in inferArgs[r] : a = <<pushed[r].lang, pushed[r].style, pushed[r].speed>>

\* a Gateway call is running for a request pushed under other settings
C14_Witness ==
    /\ wpc = "inferring"
    /\ inferArgs[request.id] /= {}
    /\ pushed[request.id].lang /= current_lang
    /\ pushed[request.id].style /= current_style_obj

\* speak with a sequence worth a request
speak_pushes == speak /\ nextId' = nextId + 1

\* C15: at most one request is between its dequeue and its onDoneSpeaking,
\* and speak never waits for it: whenever the host is free to call speak on
\* the initialised driver, the push can be made, whatever the worker does.
C15_OneActiveSpeakNeverWaits ==
    /\ Cardinality({r \in Ids : dequeued[r] > doneSpeaking[r]}) <= 1
    /\ (hpc = "idle" /\ voice_loaded_event /\ MayAct) => ENABLED speak_pushes

\* the worker is in the Gateway call of a later chunk of its request, another
\* request is waiting in the queue, and the host can push the next one
C15_Witness ==
    /\ wpc = "inferring" /\ fed[request.id] /= <<>>
    /\ InQueue(request.id + 1)
    /\ hpc = "idle" /\ MayAct /\ ENABLED speak_pushes

\* C16: post-processing never leaves the 16-bit range: the amplified sample
\* is clipped to [-1.0, 1.0] before the conversion, every PCM value lies in
\* [-32767, 32767], an amplified sample of +1.0 or more gives 32767 and one of
\* -1.0 or less gives -32767 (no wraparound).
C16_NoOverflow ==
    /\ ppc \in {"L101", "done"} => (wav_clamped >= 0 - Den /\ wav_clamped <= Den)
    /\ ppc = "done" =>
          /\ audio_int16 >= 0 - PcmMax /\ audio_int16 <= PcmMax
          /\ wav_amplified >= Den => audio_int16 = PcmMax
          /\ wav_amplified <= 0 - Den => audio_int16 = 0 - PcmMax

\* a sample amplified beyond +1.0 was converted
C16_Witness == ppc = "done" /\ wav_amplified > Den /\ audio_int16 = PcmMax

\* C17: each PCM value is the clipped, scaled sample times 32767 rounded to
\* the nearest integer: it differs from the exact product by at most 1/2.
C17_RoundedToNearest ==
    ppc = "done" =>
        LET diff == audio_int16 * Den - wav_clamped * PcmMax
        IN  2 * (IF diff >= 0 THEN diff ELSE 0 - diff) <= Den

\* C18: the worker never feeds a sink that terminate has closed and never
\* starts a Gateway call once terminate has dropped the engine.
C18_NoFeedAfterClose ==
    [][/\ \A r \in Ids : fed'[r] /= fed[r] => player /= "closed"
       /\ inferCalls' /= inferCalls => tts_engine /= None]_vars

\* C19: once the initialisation has completed and no voice change is in
\* progress, the active style is the one of the current voice.
C19_StyleOfCurrentVoice ==
    (lpc = "done" /\ voice_loaded_event /\ hpc = "idle") => current_style_obj = current_voice_id

\* the length of the string items among the first k items of seq
RECURSIVE TextLenUpTo(_, _)
TextLenUpTo(seq, k) ==
    IF k = 0 THEN 0
    ELSE TextLenUpTo(seq, k - 1) + (IF seq[k].type = "str" THEN Len(seq[k].s) ELSE 0)

\* text is the string items of seq, one after the other
IsJoinOf(text, seq) ==
    /\ Len(text) = TextLenUpTo(seq, Len(seq))
    /\ \A k \in 1..Len(seq) :
          seq[k].type = "str" =>
              \A j \in 1..Len(seq[k].s) : text[TextLenUpTo(seq, k - 1) + j] = seq[k].s[j]

\* the places of the IndexCommands of seq
IndexPlaces(seq) == {k \in 1..Len(seq) : seq[k].type = "IndexCommand"}

\* index is the marker of the IndexCommand that comes last in seq
IsLastIndexOf(index, seq) ==
    IF IndexPlaces(seq) = {} THEN index = NoIndex
    ELSE \E k \in IndexPlaces(seq) :
            /\ \A k2 \in IndexPlaces(seq) : k2 <= k
            /\ index = seq[k].index

\* seq has a string item with a character that is not whitespace
HasText(seq) ==
    \E k \in 1..Len(seq) :
        seq[k].type = "str" /\ \E j \in 1..Len(seq[k].s) : seq[k].s[j] /= " "

\* C20: a speak call pushes at most one request; its text is the string items
\* of the speech sequence joined in order and its index marker is that of the
\* last IndexCommand (none without one); a sequence with blank text and no
\* IndexCommand pushes nothing; a pushed request is not changed afterwards;
\* and only the last marker of a sequence is ever notified through
\* onIndexReached.
C20_OneRequestPerSequence ==
    [][/\ nextId' <= nextId + 1
       /\ Len(request_queue') <= Len(request_queue) + 1
       /\ \A r \in Ids :
            /\ r < nextId => (pushed'[r] = pushed[r] /\ spoken'[r] = spoken[r])
            /\ (r = nextId /\ nextId' /= nextId) =>
                  /\ request_queue' = Append(request_queue, pushed'[r])
                  /\ IsJoinOf(pushed'[r].text, spoken'[r])
                  /\ IsLastIndexOf(pushed'[r].index, spoken'[r])
                  /\ HasText(spoken'[r]) \/ IndexPlaces(spoken'[r]) /= {}
            /\ notifiedIndex'[r] /= notifiedIndex[r] =>
                  /\ Len(notifiedIndex'[r]) = 1
                  /\ IsLastIndexOf(notifiedIndex'[r][1], spoken[r])]_vars

\* a sequence with two IndexCommands was spoken and its last marker notified
C20_Witness ==
    \E r \in Ids :
        /\ Cardinality(IndexPlaces(spoken[r])) = 2
        /\ Len(notifiedIndex[r]) = 1
        /\ doneSpeaking[r] = 1

=============================================================================
